---- MODULE Spec2Model ----
(***************************************************************************)
(* Model of ely-tools: the ds (directory sizes) command of                 *)
(* get-directory-sizes.ts and the exec command of exec-command.ts.         *)
(*                                                                         *)
(* A path is a sequence of components; an absolute path starts with the    *)
(* component "/".  The filesystem fs maps every existing absolute path to  *)
(* an entry [kind, size]:                                                  *)
(*   "file"    a regular file of `size` bytes                              *)
(*   "dir"     a readable directory                                        *)
(*   "nolist"  a directory whose readdirSync throws (EACCES)               *)
(*   "badstat" an entry that readdirSync of its parent lists but whose     *)
(*             statSync throws (a dangling symlink)                        *)
(***************************************************************************)
EXTENDS Integers, Sequences, FiniteSets, TLC

VARIABLES
    fs,          \* the filesystem: resolved path -> entry
    pc,          \* where the running command is: "start", "loop", "exec", "done";
                 \* for pack "start", "build", "pack", "locate", "copy", "done"
    options,     \* the options object the handler was called with
    ret,         \* the handler's return value
    errors,      \* console.error calls, in order
    warns,       \* console.warn calls (the path warned about), in order
    discovered,  \* ds: the directories array of the root call before it is sorted
    report,      \* ds: the array listDirectoryContents returns (ranked, truncated)
    totals,      \* ds: the totals printed ("Total directory size")
    calls,       \* ds: number of calls of getSize and of listDirectoryContents
    targets,     \* exec: targetDirectories
    results,     \* exec: the results array
    processes,   \* exec: the child processes spawned, [cwd, exit], in order
    summary,     \* exec: the summaries printed
    steps,       \* pack: the steps run so far, [step, status], in order
    tarball,     \* pack: the path findLatestTarball returned
    clipboard,   \* pack: the texts copied to the clipboard
    bytes,       \* formatBytes: its argument
    formatted    \* formatBytes: the text it returned

dsVars == <<discovered, report, totals, calls>>
execVars == <<targets, results, processes, summary>>
packVars == <<steps, tarball, clipboard>>
fmtVars == <<bytes, formatted>>
vars == <<fs, pc, options, ret, errors, warns, dsVars, execVars, packVars, fmtVars>>

(***************************************************************************)
(* Bounds of the model.                                                    *)
(***************************************************************************)
MaxEntries == 5
MaxDepthOpt == 1
MaxTopCount == 2
MaxExecEntries == 3
MaxSealedEntries == 3
MaxPackEntries == 3
MaxLimbs == 6

(***************************************************************************)
(* Levels[d] are the names an entry d levels below Cwd may have, in the    *)
(* order readdirSync lists them (NameOrder).                               *)
(***************************************************************************)
Names == <<"a", "b">>
Levels == <<Names, Names, <<"a">>>>
ExecLevels == <<<<"a", "b", "dist">>, <<"a", "node_modules", "package.json">>, <<"a">>>>
PackLevels == <<<<"a", "old.tgz", "pkg.tgz">>, <<"old.tgz", "pkg.tgz">>>>
NameOrder == <<"a", "b", "dist", "node_modules", "old.tgz", "package.json", "pkg.tgz">>
FileSizes == {100, 200}
Cwd == <<"/", "w">>

(***************************************************************************)
(* Program constants.                                                      *)
(***************************************************************************)
DefaultMaxDepth == 2
DefaultTopCount == 10
DefaultDirectory == <<".">>

(***************************************************************************)
(* The filesystems the commands are run on: every tree below Cwd with at   *)
(* most MaxEntries entries, named level by level as `levels` says.         *)
(***************************************************************************)
EmptyFs == [p \in {} |-> 0]
DirEntry == [kind |-> "dir", size |-> 0]
FaultEntries == {[kind |-> "nolist", size |-> 0], [kind |-> "badstat", size |-> 0]}
LeafEntries == {[kind |-> "file", size |-> s] : s \in FileSizes} \cup FaultEntries
ExecLeafEntries == {[kind |-> "file", size |-> 100]} \cup FaultEntries
MTimes == {1, 2}
PackLeafEntries ==
    {[kind |-> "file", size |-> 100, mtime |-> m] : m \in MTimes} \cup FaultEntries

RECURSIVE Tree(_, _, _, _, _), Forest(_, _, _, _, _, _)
Tree(q, n, d, levels, leaves) ==
    IF n < 1 THEN {}
    ELSE {q :> e : e \in leaves}
           \cup (IF d < Len(levels)
                 THEN {(q :> DirEntry) @@ t : t \in Forest(q, 1, n - 1, d + 1, levels, leaves)}
                 ELSE {q :> DirEntry})

Forest(q, i, n, d, levels, leaves) ==
    IF i > Len(levels[d]) THEN {EmptyFs}
    ELSE Forest(q, i + 1, n, d, levels, leaves)
           \cup UNION {{t1 @@ t2 :
                          t2 \in Forest(q, i + 1, n - Cardinality(DOMAIN t1), d, levels, leaves)} :
                       t1 \in Tree(Append(q, levels[d][i]), n, d, levels, leaves)}

FileSystems ==
    {(Cwd :> DirEntry) @@ t : t \in Forest(Cwd, 1, MaxEntries, 1, Levels, LeafEntries)}

ExecFileSystems ==
    {(Cwd :> DirEntry) @@ t : t \in Forest(Cwd, 1, MaxExecEntries, 1, ExecLevels, ExecLeafEntries)}

PackFileSystems ==
    {(Cwd :> DirEntry) @@ t : t \in Forest(Cwd, 1, MaxPackEntries, 1, PackLevels, PackLeafEntries)}

(***************************************************************************)
(* path.join, path.resolve, path.relative                                  *)
(***************************************************************************)
join(dirPath, item) == Append(dirPath, item)

IsAbsolute(p) == Len(p) > 0 /\ p[1] = "/"

RECURSIVE Normalize(_, _)
Normalize(done, rest) ==
    IF rest = <<>> THEN done
    ELSE IF Head(rest) = "." THEN Normalize(done, Tail(rest))
    ELSE IF Head(rest) = ".." /\ Len(done) > 1
         THEN Normalize(SubSeq(done, 1, Len(done) - 1), Tail(rest))
    ELSE IF Head(rest) = ".." THEN Normalize(done, Tail(rest))
    ELSE Normalize(Append(done, Head(rest)), Tail(rest))

resolve(p) == IF IsAbsolute(p) THEN Normalize(<<"/">>, Tail(p)) ELSE Normalize(Cwd, p)

RECURSIVE CommonLen(_, _)
CommonLen(from, to) ==
    IF from # <<>> /\ to # <<>> /\ Head(from) = Head(to)
    THEN 1 + CommonLen(Tail(from), Tail(to))
    ELSE 0

relative(from, to) ==
    LET f == resolve(from)
        t == resolve(to)
        k == CommonLen(f, t)
    IN [i \in 1..(Len(f) - k) |-> ".."] \o SubSeq(t, k + 1, Len(t))

(***************************************************************************)
(* fs.existsSync, fs.statSync, fs.readdirSync.  The operating system       *)
(* locates a path from the working directory: Locate(p) = resolve(p) (the  *)
(* keys of fs are resolved paths).                                         *)
(***************************************************************************)
Locate(p) == IF p \in DOMAIN fs THEN p ELSE resolve(p)
StatThrows(p) == Locate(p) \notin DOMAIN fs \/ fs[Locate(p)].kind = "badstat"
existsSync(p) == ~StatThrows(p)
isDirectory(p) == fs[Locate(p)].kind \in {"dir", "nolist"}
statSize(p) == fs[Locate(p)].size
ReaddirThrows(p) == StatThrows(p) \/ fs[Locate(p)].kind # "dir"

RECURSIVE Listing(_, _, _)
Listing(p, names, i) ==
    IF i > Len(names) THEN <<>>
    ELSE (IF Append(p, names[i]) \in DOMAIN fs THEN <<names[i]>> ELSE <<>>)
             \o Listing(p, names, i + 1)

readdirSync(p) == Listing(Locate(p), NameOrder, 1)

(***************************************************************************)
(* getSize: the size of a file, or the recursive sum over a directory.     *)
(* The result is [threw, size, warns]: threw = TRUE when the call ends by  *)
(* an exception (statSync at the top of the function is outside the try),  *)
(* warns are the paths console.warn was called with, in order.             *)
(***************************************************************************)
\* faulty variant: totalSize = getSize(itemPath), an assignment for the +=
AddSizeAssign(totalSize, childSize) == childSize

AddSize(totalSize, childSize) == totalSize + childSize

RECURSIVE getSize(_), SumItems(_, _, _, _, _)
getSize(filePath) ==
    IF StatThrows(filePath)
    THEN [threw |-> TRUE, size |-> 0, warns |-> <<>>]
    ELSE IF isDirectory(filePath)
    THEN IF ReaddirThrows(filePath)
         THEN [threw |-> FALSE, size |-> 0, warns |-> <<filePath>>]
         ELSE SumItems(filePath, readdirSync(filePath), 1, 0, <<>>)
    ELSE [threw |-> FALSE, size |-> statSize(filePath), warns |-> <<>>]

SumItems(filePath, items, i, totalSize, w) ==
    IF i > Len(items)
    THEN [threw |-> FALSE, size |-> totalSize, warns |-> w]
    ELSE LET r == getSize(join(filePath, items[i]))
         IN IF r.threw
            THEN [threw |-> FALSE, size |-> totalSize,
                  warns |-> w \o r.warns \o <<filePath>>]
            ELSE SumItems(filePath, items, i + 1, AddSize(totalSize, r.size),
                          w \o r.warns)

(***************************************************************************)
(* directories.sort((a, b) => b.size - a.size): Array.prototype.sort is    *)
(* stable (ES2019; the build targets ES2020), modelled as the insertion of *)
(* each element after every element that does not compare greater.         *)
(***************************************************************************)
\* faulty variant: the comparator with its operands exchanged
CompareAscending(a, b) == a.size - b.size

CompareNodes(a, b) == b.size - a.size

RECURSIVE InsertSorted(_, _)
InsertSorted(sorted, x) ==
    IF sorted = <<>> THEN <<x>>
    ELSE IF CompareNodes(Head(sorted), x) > 0
         THEN <<x>> \o sorted
         ELSE <<Head(sorted)>> \o InsertSorted(Tail(sorted), x)

RECURSIVE SortNodes(_, _)
SortNodes(sorted, rest) ==
    IF rest = <<>> THEN sorted
    ELSE SortNodes(InsertSorted(sorted, Head(rest)), Tail(rest))

sort(directories) == SortNodes(<<>>, directories)

slice(directories, topCount) ==
    SubSeq(directories, 1, IF topCount < Len(directories) THEN topCount ELSE Len(directories))

(***************************************************************************)
(* listDirectoryContents: the walk.  The result is [directories, all,      *)
(* warns, errors, sizeCalls, listCalls, threw]: directories is the         *)
(* returned array, all the array before the root call sorts and truncates  *)
(* it, errors the paths console.error was called with, threw = TRUE when   *)
(* the call ends by an exception.                                          *)
(***************************************************************************)
\* faulty variant: the depth test off by one
DepthExceededLoose(currentDepth, maxDepth) == currentDepth > maxDepth + 1

DepthExceeded(currentDepth, maxDepth) == currentDepth > maxDepth

DirectoryItem(item, itemPath, dirPath, size, currentDepth) ==
    [name |-> item, path |-> itemPath, relativePath |-> relative(dirPath, itemPath),
     size |-> size, depth |-> currentDepth]

NoWalk == [directories |-> <<>>, all |-> <<>>, warns |-> <<>>, errors |-> <<>>,
           sizeCalls |-> 0, listCalls |-> 1, threw |-> FALSE]

\* faulty variant: readdirSync outside the try, so that its exception leaves
\* listDirectoryContents
ReaddirUncaught(dirPath) == [NoWalk EXCEPT !.threw = TRUE]

\* readdirSync throws: the outer catch logs the error, nothing was pushed
ReaddirCaught(dirPath) == [NoWalk EXCEPT !.errors = <<dirPath>>]

RootResult(walk, topCount) ==
    [walk EXCEPT !.directories = slice(sort(walk.directories), topCount)]

RECURSIVE listDirectoryContents(_, _, _, _), WalkItems(_, _, _, _, _, _, _)
listDirectoryContents(dirPath, maxDepth, currentDepth, topCount) ==
    IF DepthExceeded(currentDepth, maxDepth) THEN NoWalk
    ELSE LET walk ==
                 IF ReaddirThrows(dirPath)
                 THEN ReaddirCaught(dirPath)
                 ELSE WalkItems(dirPath, readdirSync(dirPath), 1, maxDepth,
                                currentDepth, topCount, NoWalk)
         IN IF currentDepth = 0 /\ ~walk.threw THEN RootResult(walk, topCount) ELSE walk

WalkItems(dirPath, items, i, maxDepth, currentDepth, topCount, acc) ==
    IF i > Len(items) THEN acc
    ELSE LET item == items[i]
             itemPath == join(dirPath, item)
             size == getSize(itemPath)
             sub == listDirectoryContents(itemPath, maxDepth, currentDepth + 1, topCount)
             node == DirectoryItem(item, itemPath, dirPath, size.size, currentDepth)
             next ==
                 IF StatThrows(itemPath)
                 THEN [acc EXCEPT !.warns = @ \o <<itemPath>>]
                 ELSE IF ~isDirectory(itemPath) THEN acc
                 ELSE IF size.threw
                 THEN [acc EXCEPT !.warns = @ \o size.warns \o <<itemPath>>,
                                  !.sizeCalls = @ + 1]
                 ELSE IF sub.threw
                 THEN [acc EXCEPT !.directories = @ \o <<node>>,
                                  !.all = @ \o <<node>>,
                                  !.warns = @ \o size.warns \o sub.warns \o <<itemPath>>,
                                  !.errors = @ \o sub.errors,
                                  !.sizeCalls = @ + 1 + sub.sizeCalls,
                                  !.listCalls = @ + sub.listCalls]
                 ELSE [directories |-> acc.directories \o <<node>> \o sub.directories,
                       all |-> acc.all \o <<node>> \o sub.all,
                       warns |-> acc.warns \o size.warns \o sub.warns,
                       errors |-> acc.errors \o sub.errors,
                       sizeCalls |-> acc.sizeCalls + 1 + sub.sizeCalls,
                       listCalls |-> acc.listCalls + sub.listCalls,
                       threw |-> FALSE]
         IN WalkItems(dirPath, items, i + 1, maxDepth, currentDepth, topCount, next)

(***************************************************************************)
(* getDirectorySizes(options): the handler of the ds command.              *)
(***************************************************************************)
RECURSIVE SumSizes(_)
SumSizes(directories) ==
    IF directories = <<>> THEN 0
    ELSE Head(directories).size + SumSizes(Tail(directories))

Option(opts, key, default) == IF key \in DOMAIN opts THEN opts[key] ELSE default

\* const absolutePath = path.resolve(directory)
ScanRootOf(opts) == resolve(Option(opts, "directory", DefaultDirectory))

DsOptions ==
    {d @@ m @@ t :
        d \in {EmptyFs, [directory |-> <<".", Names[1]>>]},
        m \in {EmptyFs} \cup {[maxDepth |-> x] : x \in 0..MaxDepthOpt},
        t \in {EmptyFs} \cup {[topCount |-> x] : x \in 1..MaxTopCount}}

\* faulty variant: the isDirectory check left out
ValidationExistsOnly(directory) ==
    IF ~existsSync(directory) THEN "does not exist" ELSE "ok"

Validation(directory) ==
    IF ~existsSync(directory) THEN "does not exist"
    ELSE IF ~isDirectory(directory) THEN "is not a directory"
    ELSE "ok"

Init ==
    /\ fs \in FileSystems
    /\ pc = "start"
    /\ options = EmptyFs
    /\ ret = FALSE
    /\ errors = <<>>
    /\ warns = <<>>
    /\ discovered = <<>>
    /\ report = <<>>
    /\ totals = <<>>
    /\ calls = [getSize |-> 0, listDirectoryContents |-> 0]
    /\ targets = <<>>
    /\ results = <<>>
    /\ processes = <<>>
    /\ summary = <<>>
    /\ steps = <<>>
    /\ tarball = <<>>
    /\ clipboard = <<>>
    /\ bytes = <<>>
    /\ formatted = <<>>

getDirectorySizes(opts) ==
    LET directory == Option(opts, "directory", DefaultDirectory)
        maxDepth == Option(opts, "maxDepth", DefaultMaxDepth)
        topCount == Option(opts, "topCount", DefaultTopCount)
        absolutePath == resolve(directory)
        walk == listDirectoryContents(absolutePath, maxDepth, 0, topCount)
    IN /\ pc = "start"
       /\ pc' = "done"
       /\ options' = opts
       /\ IF Validation(directory) # "ok"
          THEN /\ errors' = <<Validation(directory)>>
               /\ ret' = FALSE
               /\ UNCHANGED <<warns, dsVars>>
          ELSE IF walk.threw
          THEN /\ errors' = Append(walk.errors, absolutePath)
               /\ warns' = walk.warns
               /\ ret' = FALSE
               /\ UNCHANGED dsVars
          ELSE /\ errors' = walk.errors
               /\ warns' = walk.warns
               /\ discovered' = walk.all
               /\ report' = walk.directories
               /\ totals' = <<SumSizes(walk.directories)>>
               /\ calls' = [getSize |-> walk.sizeCalls,
                            listDirectoryContents |-> walk.listCalls]
               /\ ret' = TRUE
       /\ UNCHANGED <<fs, execVars, packVars, fmtVars>>

Next == \E opts \in DsOptions : getDirectorySizes(opts)

Spec == Init /\ [][Next]_vars

(***************************************************************************)
(* The trees with directories that cannot be listed (EACCES) although they *)
(* have entries: Sealed(t, S) is the tree t with the directories S sealed. *)
(***************************************************************************)
Sealed(t, S) ==
    [q \in DOMAIN t |-> IF q \in S THEN [kind |-> "nolist", size |-> 0] ELSE t[q]]

SealedFileSystems ==
    UNION {{Sealed((Cwd :> DirEntry) @@ t, S) :
               S \in SUBSET {q \in DOMAIN t : t[q].kind = "dir"}} :
           t \in Forest(Cwd, 1, MaxSealedEntries, 1, Levels, LeafEntries)}

InitSealed ==
    /\ fs \in SealedFileSystems
    /\ pc = "start"
    /\ options = EmptyFs
    /\ ret = FALSE
    /\ errors = <<>>
    /\ warns = <<>>
    /\ discovered = <<>>
    /\ report = <<>>
    /\ totals = <<>>
    /\ calls = [getSize |-> 0, listDirectoryContents |-> 0]
    /\ targets = <<>>
    /\ results = <<>>
    /\ processes = <<>>
    /\ summary = <<>>
    /\ steps = <<>>
    /\ tarball = <<>>
    /\ clipboard = <<>>
    /\ bytes = <<>>
    /\ formatted = <<>>

SpecSealed == InitSealed /\ [][Next]_vars
(***************************************************************************)
(* The exec command.  getSubdirectories is the walk; its result is         *)
(* [directories, warns].                                                   *)
(***************************************************************************)
\* faulty variant: the build output directory is missing from the list
skipDirsNoDist == {"node_modules", ".git", ".next", "build"}

skipDirs == {"node_modules", ".git", ".next", "dist", "build"}

hasPackageJson(dirPath) == existsSync(join(dirPath, "package.json"))

RECURSIVE getSubdirectories(_, _, _), SubdirItems(_, _, _, _, _, _)
getSubdirectories(dirPath, maxDepth, currentDepth) ==
    IF DepthExceeded(currentDepth, maxDepth)
    THEN [directories |-> <<>>, warns |-> <<>>]
    ELSE IF ReaddirThrows(dirPath)
    THEN [directories |-> <<>>, warns |-> <<dirPath>>]
    ELSE SubdirItems(dirPath, readdirSync(dirPath), 1, maxDepth, currentDepth,
                     [directories |-> <<>>, warns |-> <<>>])

SubdirItems(dirPath, items, i, maxDepth, currentDepth, acc) ==
    IF i > Len(items) THEN acc
    ELSE LET item == items[i]
             itemPath == join(dirPath, item)
             subDirs == getSubdirectories(itemPath, maxDepth, currentDepth + 1)
             next ==
                 IF StatThrows(itemPath) THEN acc
                 ELSE IF ~isDirectory(itemPath) THEN acc
                 ELSE IF item \in skipDirs THEN acc
                 ELSE [directories |-> acc.directories \o <<itemPath>> \o subDirs.directories,
                       warns |-> acc.warns \o subDirs.warns]
         IN SubdirItems(dirPath, items, i + 1, maxDepth, currentDepth, next)

\* subdirectories.filter(dir => hasPackageJson(dir))
RECURSIVE filterHasPackageJson(_)
filterHasPackageJson(subdirectories) ==
    IF subdirectories = <<>> THEN <<>>
    ELSE (IF hasPackageJson(Head(subdirectories)) THEN <<Head(subdirectories)>> ELSE <<>>)
             \o filterHasPackageJson(Tail(subdirectories))

(***************************************************************************)
(* A text is a sequence of characters.  The child process ends with an     *)
(* exit status and what it wrote to stdout; execSync throws on a non-zero  *)
(* exit, with the error's message and stdout.                              *)
(***************************************************************************)
Whitespace == {" ", "\n"}

RECURSIVE trimStart(_)
trimStart(text) ==
    IF text # <<>> /\ Head(text) \in Whitespace THEN trimStart(Tail(text)) ELSE text

RECURSIVE trimEnd(_)
trimEnd(text) ==
    IF text # <<>> /\ text[Len(text)] \in Whitespace
    THEN trimEnd(SubSeq(text, 1, Len(text) - 1))
    ELSE text

trim(text) == trimEnd(trimStart(text))

CommandFailed == <<"C", "o", "m", "m", "a", "n", "d", " ", "f", "a", "i", "l", "e", "d">>

Outcomes ==
    {[exit |-> 0, stdout |-> <<"o", "k", "\n">>],
     [exit |-> 1, stdout |-> <<>>]}

\* faulty variant: executeCommand without its try/catch, so that the
\* exception of execSync leaves it
executeCommandNoCatch(outcome) ==
    [threw |-> outcome.exit # 0,
     result |-> [success |-> TRUE, output |-> trim(outcome.stdout)]]

executeCommand(outcome) ==
    IF outcome.exit = 0
    THEN [threw |-> FALSE,
          result |-> [success |-> TRUE, output |-> trim(outcome.stdout)]]
    ELSE LET errorOutput == IF outcome.stdout # <<>> THEN outcome.stdout ELSE CommandFailed
         IN [threw |-> FALSE,
             result |-> [success |-> FALSE, output |-> trim(errorOutput),
                         error |-> CommandFailed]]

ExecOptions ==
    {[exec |-> "cmd"] @@ d @@ m @@ k :
        d \in {EmptyFs, [directory |-> <<".", Names[1]>>]},
        m \in {EmptyFs} \cup {[maxDepth |-> x] : x \in 0..MaxDepthOpt},
        k \in {EmptyFs, [packageName |-> "pkg"]}}

InitExec ==
    /\ fs \in ExecFileSystems
    /\ pc = "start"
    /\ options = EmptyFs
    /\ ret = FALSE
    /\ errors = <<>>
    /\ warns = <<>>
    /\ discovered = <<>>
    /\ report = <<>>
    /\ totals = <<>>
    /\ calls = [getSize |-> 0, listDirectoryContents |-> 0]
    /\ targets = <<>>
    /\ results = <<>>
    /\ processes = <<>>
    /\ summary = <<>>
    /\ steps = <<>>
    /\ tarball = <<>>
    /\ clipboard = <<>>
    /\ bytes = <<>>
    /\ formatted = <<>>

\* execCommand up to the loop: validation, the walk, the package.json filter
execCommand(opts) ==
    LET directory == Option(opts, "directory", DefaultDirectory)
        maxDepth == Option(opts, "maxDepth", DefaultMaxDepth)
        absolutePath == resolve(directory)
        subdirectories == getSubdirectories(absolutePath, maxDepth, 0)
    IN /\ pc = "start"
       /\ options' = opts
       /\ IF Validation(directory) # "ok"
          THEN /\ errors' = <<Validation(directory)>>
               /\ ret' = FALSE
               /\ pc' = "done"
               /\ UNCHANGED <<warns, targets>>
          ELSE /\ targets' = IF "packageName" \in DOMAIN opts
                             THEN filterHasPackageJson(subdirectories.directories)
                             ELSE subdirectories.directories
               /\ warns' = subdirectories.warns
               /\ pc' = "loop"
               /\ UNCHANGED <<errors, ret>>
       /\ UNCHANGED <<fs, dsVars, packVars, fmtVars, results, processes, summary>>

\* the loop reaches the next directory: execSync starts the command in it
ExecSpawn ==
    /\ pc = "loop"
    /\ Len(results) < Len(targets)
    /\ processes' = Append(processes, [cwd |-> targets[Len(results) + 1], exit |-> -1])
    /\ pc' = "exec"
    /\ UNCHANGED <<fs, options, ret, errors, warns, dsVars, packVars, fmtVars, targets, results, summary>>

\* faulty variant: a command that failed is run a second time in its directory
ExecReturnRetryOnce(outcome) ==
    LET dir == targets[Len(results) + 1]
        r == executeCommand(outcome)
        firstRun == Cardinality({k \in DOMAIN processes : processes[k].cwd = dir}) = 1
    IN /\ pc = "exec"
       /\ processes' = [processes EXCEPT ![Len(processes)].exit = outcome.exit]
       /\ results' = IF ~r.result.success /\ firstRun
                     THEN results
                     ELSE Append(results,
                                 [directory |-> dir,
                                  relativePath |-> relative(ScanRootOf(options), dir),
                                  result |-> r.result])
       /\ pc' = "loop"
       /\ UNCHANGED <<fs, options, ret, errors, warns, dsVars, packVars, fmtVars, targets, summary>>

\* the command ends: executeCommand returns and its result is pushed
ExecReturn(outcome) ==
    LET dir == targets[Len(results) + 1]
        r == executeCommand(outcome)
    IN /\ pc = "exec"
       /\ processes' = [processes EXCEPT ![Len(processes)].exit = outcome.exit]
       /\ IF r.threw
          THEN /\ errors' = Append(errors, CommandFailed)
               /\ ret' = FALSE
               /\ pc' = "done"
               /\ UNCHANGED results
          ELSE /\ results' = Append(results,
                                    [directory |-> dir,
                                     relativePath |-> relative(ScanRootOf(options), dir),
                                     result |-> r.result])
               /\ pc' = "loop"
               /\ UNCHANGED <<errors, ret>>
       /\ UNCHANGED <<fs, options, warns, dsVars, packVars, fmtVars, targets, summary>>

\* faulty variant: failureCount++ outside the else branch
TallyFailedAlways(rs) ==
    [successCount |-> Cardinality({i \in DOMAIN rs : rs[i].result.success}),
     failureCount |-> Len(rs)]

Tally(rs) ==
    [successCount |-> Cardinality({i \in DOMAIN rs : rs[i].result.success}),
     failureCount |-> Cardinality({i \in DOMAIN rs : ~rs[i].result.success})]

\* the loop is over: the results are displayed and counted, the summary printed
ExecSummary ==
    /\ pc = "loop"
    /\ Len(results) = Len(targets)
    /\ summary' = Append(summary, Tally(results))
    /\ ret' = TRUE
    /\ pc' = "done"
    /\ UNCHANGED <<fs, options, errors, warns, dsVars, packVars, fmtVars, targets, results, processes>>

NextExec ==
    \/ \E opts \in ExecOptions : execCommand(opts)
    \/ ExecSpawn
    \/ \E outcome \in Outcomes : ExecReturn(outcome)
    \/ ExecSummary

SpecExec == InitExec /\ [][NextExec]_vars

(***************************************************************************)
(* execCommand is synchronous code: once called it takes its next step,    *)
(* and execSync returns when the command ends; every command is taken to   *)
(* end.                                                                    *)
(***************************************************************************)
SpecExecFair ==
    /\ SpecExec
    /\ WF_vars(ExecSpawn)
    /\ WF_vars(\E outcome \in Outcomes : ExecReturn(outcome))
    /\ WF_vars(ExecSummary)

(***************************************************************************)
(* The pack command.  An entry of fs may have an mtime; an entry the model *)
(* gives none is as old as OldTime, and what the pack step writes has the  *)
(* time Now.                                                               *)
(***************************************************************************)
OldTime == 1
Now == 3

statMtime(p) == Option(fs[Locate(p)], "mtime", OldTime)

\* file.endsWith('.tgz'), over the names of PackLevels
endsWithTgz(file) == file \in {"old.tgz", "pkg.tgz"}

RECURSIVE filterTgz(_)
filterTgz(files) ==
    IF files = <<>> THEN <<>>
    ELSE (IF endsWithTgz(Head(files)) THEN <<Head(files)>> ELSE <<>>)
             \o filterTgz(Tail(files))

\* fs.unlinkSync throws on a directory (EPERM); it removes a file and a
\* dangling link
UnlinkThrows(p) == fs[Locate(p)].kind \in {"dir", "nolist"}

Unlink(files, p) == [q \in DOMAIN files \ {p} |-> files[q]]

\* removeTarballs: the result is [fs, warns], fs the filesystem it leaves
RECURSIVE RemoveEach(_, _, _, _)
RemoveEach(directory, tgzFiles, i, files) ==
    IF i > Len(tgzFiles) THEN [fs |-> files, warns |-> <<>>]
    ELSE LET filePath == join(directory, tgzFiles[i])
         IN IF UnlinkThrows(filePath)
            THEN [fs |-> files, warns |-> <<filePath>>]
            ELSE RemoveEach(directory, tgzFiles, i + 1, Unlink(files, filePath))

removeTarballs(directory) ==
    IF ReaddirThrows(directory)
    THEN [fs |-> fs, warns |-> <<directory>>]
    ELSE RemoveEach(directory, filterTgz(readdirSync(directory)), 1, fs)

\* executeCommand of pack-command.ts
packExecuteCommand(outcome) ==
    IF outcome.exit = 0
    THEN [success |-> TRUE, output |-> trim(outcome.stdout)]
    ELSE LET errorOutput == IF outcome.stdout # <<>> THEN outcome.stdout ELSE CommandFailed
         IN [success |-> FALSE, output |-> trim(errorOutput), error |-> CommandFailed]

\* tgzFiles.sort((a, b) => mtime of b - mtime of a), stable
CompareMtime(directory, a, b) ==
    statMtime(join(directory, b)) - statMtime(join(directory, a))

RECURSIVE InsertByMtime(_, _, _)
InsertByMtime(directory, sorted, x) ==
    IF sorted = <<>> THEN <<x>>
    ELSE IF CompareMtime(directory, Head(sorted), x) > 0
         THEN <<x>> \o sorted
         ELSE <<Head(sorted)>> \o InsertByMtime(directory, Tail(sorted), x)

RECURSIVE SortByMtime(_, _, _)
SortByMtime(directory, sorted, rest) ==
    IF rest = <<>> THEN sorted
    ELSE SortByMtime(directory, InsertByMtime(directory, sorted, Head(rest)), Tail(rest))

\* findLatestTarball: [found, path, errors]; found = FALSE is the null result.
\* The comparator stats both its operands, and it is called when there are two
\* files or more.
findLatestTarball(directory) ==
    IF ReaddirThrows(directory)
    THEN [found |-> FALSE, path |-> <<>>, errors |-> <<directory>>]
    ELSE LET tgzFiles == filterTgz(readdirSync(directory))
         IN IF Len(tgzFiles) = 0
            THEN [found |-> FALSE, path |-> <<>>, errors |-> <<>>]
            ELSE IF Len(tgzFiles) >= 2
                    /\ \E k \in DOMAIN tgzFiles : StatThrows(join(directory, tgzFiles[k]))
            THEN [found |-> FALSE, path |-> <<>>, errors |-> <<directory>>]
            ELSE [found |-> TRUE,
                  path |-> join(directory, SortByMtime(directory, <<>>, tgzFiles)[1]),
                  errors |-> <<>>]

PackOptions == {EmptyFs, [directory |-> <<".", PackLevels[1][1]>>]}

Step(name, status) == [step |-> name, status |-> status]

Status(success) == IF success THEN "ok" ELSE "failed"

Finish(log, status) == [log EXCEPT ![Len(log)].status = status]

InitPack ==
    /\ fs \in PackFileSystems
    /\ pc = "start"
    /\ options = EmptyFs
    /\ ret = FALSE
    /\ errors = <<>>
    /\ warns = <<>>
    /\ discovered = <<>>
    /\ report = <<>>
    /\ totals = <<>>
    /\ calls = [getSize |-> 0, listDirectoryContents |-> 0]
    /\ targets = <<>>
    /\ results = <<>>
    /\ processes = <<>>
    /\ summary = <<>>
    /\ steps = <<>>
    /\ tarball = <<>>
    /\ clipboard = <<>>
    /\ bytes = <<>>
    /\ formatted = <<>>

\* packCommand up to the build: validation, removeTarballs, and execSync
\* starts `pnpm run build`
packCommand(opts) ==
    LET directory == Option(opts, "directory", DefaultDirectory)
        absolutePath == resolve(directory)
        removed == removeTarballs(absolutePath)
    IN /\ pc = "start"
       /\ options' = opts
       /\ IF Validation(directory) # "ok"
          THEN /\ errors' = <<Validation(directory)>>
               /\ ret' = FALSE
               /\ pc' = "done"
               /\ UNCHANGED <<fs, warns, steps>>
          ELSE /\ fs' = removed.fs
               /\ warns' = removed.warns
               /\ steps' = <<Step("removeTarballs", Status(removed.warns = <<>>)),
                             Step("build", "running")>>
               /\ pc' = "build"
               /\ UNCHANGED <<errors, ret>>
       /\ UNCHANGED <<dsVars, execVars, fmtVars, tarball, clipboard>>

\* faulty variant: the result of the build is not looked at
PackBuildUnchecked(outcome) ==
    /\ pc = "build"
    /\ steps' = Append(Finish(steps, Status(packExecuteCommand(outcome).success)),
                       Step("pack", "running"))
    /\ pc' = "pack"
    /\ UNCHANGED <<fs, options, ret, errors, warns, dsVars, execVars, fmtVars, tarball, clipboard>>

\* the build ends: on success execSync starts `pnpm pack`
PackBuild(outcome) ==
    LET buildResult == packExecuteCommand(outcome)
    IN /\ pc = "build"
       /\ IF ~buildResult.success
          THEN /\ steps' = Finish(steps, "failed")
               /\ errors' = Append(errors, buildResult.error)
               /\ ret' = FALSE
               /\ pc' = "done"
          ELSE /\ steps' = Append(Finish(steps, "ok"), Step("pack", "running"))
               /\ pc' = "pack"
               /\ UNCHANGED <<errors, ret>>
       /\ UNCHANGED <<fs, options, warns, dsVars, execVars, fmtVars, tarball, clipboard>>

\* the pack process ends; it may have written the archive pkg.tgz where no
\* directory of that name is in its way
PackPack(outcome, written) ==
    LET packResult == packExecuteCommand(outcome)
        archive == join(ScanRootOf(options), "pkg.tgz")
        canWrite == archive \notin DOMAIN fs \/ fs[archive].kind \in {"file", "badstat"}
    IN /\ pc = "pack"
       /\ fs' = IF written /\ canWrite
                THEN (archive :> [kind |-> "file", size |-> 100, mtime |-> Now]) @@ fs
                ELSE fs
       /\ IF ~packResult.success
          THEN /\ steps' = Finish(steps, "failed")
               /\ errors' = Append(errors, packResult.error)
               /\ ret' = FALSE
               /\ pc' = "done"
          ELSE /\ steps' = Finish(steps, "ok")
               /\ pc' = "locate"
               /\ UNCHANGED <<errors, ret>>
       /\ UNCHANGED <<options, warns, dsVars, execVars, fmtVars, tarball, clipboard>>

\* findLatestTarball, and execSync starts pbcopy with the path found
PackLocate ==
    LET tarballPath == findLatestTarball(ScanRootOf(options))
    IN /\ pc = "locate"
       /\ IF ~tarballPath.found
          THEN /\ steps' = Append(steps, Step("findLatestTarball", "failed"))
               /\ errors' = errors \o tarballPath.errors \o <<ScanRootOf(options)>>
               /\ ret' = FALSE
               /\ pc' = "done"
               /\ UNCHANGED tarball
          ELSE /\ steps' = steps \o <<Step("findLatestTarball", "ok"),
                                      Step("copyToClipboard", "running")>>
               /\ tarball' = tarballPath.path
               /\ pc' = "copy"
               /\ UNCHANGED <<errors, ret>>
       /\ UNCHANGED <<fs, options, warns, dsVars, execVars, fmtVars, clipboard>>

\* pbcopy ends: copyToClipboard returns whether it succeeded, and packCommand
\* returns true
PackCopy(copied) ==
    /\ pc = "copy"
    /\ steps' = Finish(steps, Status(copied))
    /\ clipboard' = IF copied THEN Append(clipboard, tarball) ELSE clipboard
    /\ errors' = IF copied THEN errors ELSE Append(errors, tarball)
    /\ ret' = TRUE
    /\ pc' = "done"
    /\ UNCHANGED <<fs, options, warns, dsVars, execVars, fmtVars, tarball>>

NextPack ==
    \/ \E opts \in PackOptions : packCommand(opts)
    \/ \E outcome \in Outcomes : PackBuild(outcome)
    \/ \E outcome \in Outcomes, written \in BOOLEAN : PackPack(outcome, written)
    \/ PackLocate
    \/ \E copied \in BOOLEAN : PackCopy(copied)

SpecPack == InitPack /\ [][NextPack]_vars

(***************************************************************************)
(* formatBytes.  A byte count is written in base 1024, most significant    *)
(* limb first, <<>> being 0 (the integers of TLC are 32 bits wide, a byte  *)
(* count is not): <<1, 512>> is 1536 and <<1, 0, 0>> is 1048576.  The byte *)
(* counts of the model have two significant limbs at most, so that         *)
(* bytes / 1024^i is (bytes[1] * 1024 + bytes[2]) / 1024 exactly.  A text  *)
(* is a sequence of characters.                                            *)
(***************************************************************************)
Kilo == 1024

TopLimbs == {1, 2, 999, Kilo - 1}
NextLimbs == {0, 5, 512, Kilo - 1}

ByteCounts ==
    {<<>>}
        \cup {<<d>> : d \in TopLimbs}
        \cup UNION {{<<d, e>> \o [j \in 1..(n - 2) |-> 0] : d \in TopLimbs, e \in NextLimbs} :
                    n \in 2..MaxLimbs}

sizes == <<<<"B">>, <<"K", "B">>, <<"M", "B">>, <<"G", "B">>, <<"T", "B">>>>

\* what string concatenation makes of sizes[i] past the end of the array
Undefined == <<"u", "n", "d", "e", "f", "i", "n", "e", "d">>

DigitChars == <<"0", "1", "2", "3", "4", "5", "6", "7", "8", "9">>

RECURSIVE toString(_)
toString(n) ==
    IF n < 10 THEN <<DigitChars[n + 1]>>
    ELSE toString(n \div 10) \o <<DigitChars[(n % 10) + 1]>>

\* Math.floor(Math.log(bytes) / Math.log(k)): the number of limbs after the first
FloorLog(limbs) == Len(limbs) - 1

\* (num / den).toFixed(2), in hundredths: the nearest, the larger one at a tie
toFixed2(num, den) == (200 * num + den) \div (2 * den)

\* parseFloat of the fixed text, concatenated to a string: no trailing zeros
parseFloatText(hundredths) ==
    LET whole == hundredths \div 100
        frac == hundredths % 100
    IN IF frac = 0 THEN toString(whole)
       ELSE IF frac % 10 = 0 THEN toString(whole) \o <<".", DigitChars[(frac \div 10) + 1]>>
       ELSE toString(whole)
                \o <<".", DigitChars[(frac \div 10) + 1], DigitChars[(frac % 10) + 1]>>

formatBytes(limbs) ==
    IF limbs = <<>> THEN <<"0", " ", "B">>
    ELSE LET i == FloorLog(limbs)
             num == limbs[1] * Kilo + (IF Len(limbs) >= 2 THEN limbs[2] ELSE 0)
             unit == IF i + 1 \in DOMAIN sizes THEN sizes[i + 1] ELSE Undefined
         IN parseFloatText(toFixed2(num, Kilo)) \o <<" ">> \o unit

InitFormat ==
    /\ fs = (Cwd :> DirEntry)
    /\ pc = "start"
    /\ options = EmptyFs
    /\ ret = FALSE
    /\ errors = <<>>
    /\ warns = <<>>
    /\ discovered = <<>>
    /\ report = <<>>
    /\ totals = <<>>
    /\ calls = [getSize |-> 0, listDirectoryContents |-> 0]
    /\ targets = <<>>
    /\ results = <<>>
    /\ processes = <<>>
    /\ summary = <<>>
    /\ steps = <<>>
    /\ tarball = <<>>
    /\ clipboard = <<>>
    /\ bytes \in ByteCounts
    /\ formatted = <<>>

FormatBytes ==
    /\ pc = "start"
    /\ formatted' = formatBytes(bytes)
    /\ pc' = "done"
    /\ UNCHANGED <<fs, options, ret, errors, warns, dsVars, execVars, packVars, bytes>>

NextFormat == FormatBytes

SpecFormat == InitFormat /\ [][NextFormat]_vars

(***************************************************************************)
(* What the claims about ds are stated over.                               *)
(***************************************************************************)
Range(seq) == {seq[i] : i \in DOMAIN seq}

Scanned == pc = "done" /\ ret = TRUE

ScanRoot == ScanRootOf(options)

GivenMaxDepth == Option(options, "maxDepth", DefaultMaxDepth)

GivenTopCount == Option(options, "topCount", DefaultTopCount)

IsPrefix(p, q) == Len(p) <= Len(q) /\ SubSeq(q, 1, Len(p)) = p

Below(p) == {q \in DOMAIN fs : IsPrefix(p, q) /\ q # p}

ChildrenOf(p) == {q \in Below(p) : Len(q) = Len(p) + 1}

DirsBelow(p) == {q \in Below(p) : fs[q].kind \in {"dir", "nolist"}}

Unreadable(q) == fs[q].kind \in {"nolist", "badstat"}

RECURSIVE SumOver(_, _)
SumOver(S, f) ==
    IF S = {} THEN 0
    ELSE LET x == CHOOSE y \in S : TRUE IN f[x] + SumOver(S \ {x}, f)

\* the bytes of all files contained in p at any depth
FileSum(p) ==
    LET files == {q \in Below(p) : fs[q].kind = "file"}
    IN SumOver(files, [q \in files |-> fs[q].size])

PositionIn(seq, x) == CHOOSE k \in DOMAIN seq : seq[k] = x

\* C1: the total size printed by getDirectorySizes is the sum of size over all
\* the nodes the walk discovered, whatever topCount truncates the report to.
C1_TotalOverAllNodes ==
    Scanned => totals = <<SumSizes(discovered)>>

\* C2: with maxDepth = 0 the ds walk is unlimited: every directory at every
\* level below the scan root of a readable tree is emitted as a node.
C2_DepthZeroUnlimited ==
    (Scanned /\ GivenMaxDepth = 0 /\ \A q \in DOMAIN fs : ~Unreadable(q))
        => {n.path : n \in Range(discovered)} = DirsBelow(ScanRoot)

\* C3: for maxDepth >= 1 no node deeper than maxDepth is in the result of
\* listDirectoryContents; the scan root's children have depth 0 and a nested
\* directory has its parent's depth + 1.
C3_DepthBound ==
    (Scanned /\ GivenMaxDepth >= 1)
        => /\ Range(report) \subseteq Range(discovered)
           /\ \A n \in Range(discovered) :
                 /\ n.depth <= GivenMaxDepth
                 /\ n.depth = Len(n.path) - Len(ScanRoot) - 1
                 /\ IsPrefix(ScanRoot, n.path)

C3_Witness ==
    /\ Scanned
    /\ GivenMaxDepth = 1
    /\ \E q \in DirsBelow(ScanRoot) : Len(q) = Len(ScanRoot) + 3
    /\ \E n \in Range(report) : n.depth = 1

\* C4: the ranked report is descending by size, and nodes of equal size keep
\* their discovery order, which is pre-order (a parent before its children).
C4_RankedStable ==
    Scanned
        => /\ Range(report) \subseteq Range(discovered)
           /\ \A i, j \in DOMAIN report :
                 i < j => /\ report[i].size >= report[j].size
                          /\ report[i].size = report[j].size
                                 => PositionIn(discovered, report[i])
                                        < PositionIn(discovered, report[j])
           /\ \A i, j \in DOMAIN discovered :
                 (discovered[i].path # discovered[j].path
                      /\ IsPrefix(discovered[i].path, discovered[j].path)) => i < j

C4_Witness ==
    /\ Scanned
    /\ \E i, j \in DOMAIN report : i < j /\ report[i].size = report[j].size
    /\ \E i, j \in DOMAIN report : i < j /\ report[i].size > report[j].size
    /\ \E i, j \in DOMAIN report :
          i < j /\ PositionIn(discovered, report[i]) > PositionIn(discovered, report[j])

\* C7: when the given path does not exist or is not a directory,
\* getDirectorySizes returns false, emits exactly one error message and does
\* no traversal: no call of listDirectoryContents or getSize, no report, no total.
C7_InvalidPathNoTraversal ==
    (pc = "done" /\ (ScanRoot \notin DOMAIN fs \/ fs[ScanRoot].kind \in {"file", "badstat"}))
        => /\ ret = FALSE
           /\ Len(errors) = 1
           /\ calls.listDirectoryContents = 0
           /\ calls.getSize = 0
           /\ report = <<>> /\ discovered = <<>> /\ totals = <<>> /\ warns = <<>>

C7_Witness ==
    /\ pc = "done"
    /\ ScanRoot \notin DOMAIN fs
    /\ Below(Cwd) # {}
    /\ ret = FALSE
    /\ errors = <<"does not exist">>

\* C8: for every directory T with a child C whose stat or listing fails, the
\* size of T is the sum over the other children of T, wherever C is listed
\* among the entries of T: C contributes 0 and what is listed after it still counts.
C8_FailSoftSum ==
    Scanned
        => \A n \in Range(discovered) :
              (\E c \in ChildrenOf(n.path) : Unreadable(c)) => n.size = FileSum(n.path)

\* C9: for a fully readable tree T, getSize(T) is the sum of getSize over the
\* direct children of T, so the size of every node of the ds walk is the sum of
\* the sizes of all the files it contains at any depth, also below maxDepth.
C9_SizeAdditive ==
    Scanned
        => \A n \in Range(discovered) :
              (\A q \in Below(n.path) : ~Unreadable(q))
                  => /\ n.size = FileSum(n.path)
                     /\ n.size = SumOver(ChildrenOf(n.path),
                                         [c \in ChildrenOf(n.path) |-> getSize(c).size])

C9_Witness ==
    /\ Scanned
    /\ GivenMaxDepth = 0
    /\ \E n \in Range(report) :
          /\ \A q \in Below(n.path) : ~Unreadable(q)
          /\ \E q \in Below(n.path) : fs[q].kind = "file" /\ Len(q) = Len(n.path) + 2
          /\ \E q \in Below(n.path) : fs[q].kind = "file" /\ Len(q) = Len(n.path) + 1
          /\ n.size = 300

\* C10: every node of the ds walk has a relativePath that is its path relative
\* to the scan root (all the components from the scan root down to the node),
\* and an absolute path.
C10_RelativeToScanRoot ==
    Scanned
        => \A n \in Range(discovered) :
              /\ IsAbsolute(n.path)
              /\ n.relativePath = SubSeq(n.path, Len(ScanRoot) + 1, Len(n.path))
(***************************************************************************)
(* What the claims about exec are stated over.                             *)
(***************************************************************************)
Cwds == [i \in DOMAIN processes |-> processes[i].cwd]

Exited(i) == processes[i].exit # -1

\* C5: the command is run exactly once in every target directory; a command
\* that fails in one directory never blocks, skips or aborts the directories
\* that come after it.
C5_FailureIsolation ==
    /\ Cwds = SubSeq(targets, 1, Len(processes))
    /\ \A i, j \in DOMAIN targets : targets[i] = targets[j] => i = j
    /\ pc = "done" => Len(processes) = Len(targets)
    /\ (pc = "loop" /\ Len(processes) < Len(targets)) => ENABLED ExecSpawn

C5_Witness ==
    /\ pc = "done"
    /\ Len(targets) >= 2
    /\ processes[1].exit = 1
    /\ Cwds = targets
    /\ \E j \in DOMAIN processes : j > 1 /\ processes[j].exit = 0

\* C6: the results are accumulated in discovery order and the summary is
\* printed only after the whole batch: successCount is the number of target
\* directories whose command succeeded, failureCount the number whose command
\* failed, and they add up to the number of target directories.
C6_SummaryCounts ==
    /\ \A i \in DOMAIN results :
          /\ results[i].directory = targets[i]
          /\ processes[i].cwd = targets[i]
          /\ results[i].result.success <=> processes[i].exit = 0
    /\ summary # <<>>
          => /\ Len(summary) = 1
             /\ pc = "done"
             /\ Len(results) = Len(targets)
             /\ Len(processes) = Len(targets)
             /\ \A i \in DOMAIN processes : Exited(i)
             /\ summary[1].successCount
                    = Cardinality({i \in DOMAIN targets : processes[i].exit = 0})
             /\ summary[1].failureCount
                    = Cardinality({i \in DOMAIN targets : processes[i].exit > 0})
             /\ summary[1].successCount + summary[1].failureCount = Len(targets)
    /\ (pc = "done" /\ ret = TRUE) => summary # <<>>

C6_Witness ==
    /\ pc = "done"
    /\ Len(targets) = 2
    /\ summary = <<[successCount |-> 1, failureCount |-> 1]>>

\* the names the exec walk is to skip, and the components of a path below the
\* scan root
DenyList == {"node_modules", ".git", ".next", "dist", "build"}

BelowRoot(q) == SubSeq(q, Len(ScanRoot) + 1, Len(q))

ValidRoot == ScanRoot \in DOMAIN fs /\ fs[ScanRoot].kind \in {"dir", "nolist"}

\* C11: in the exec walk maxDepth = 0 means the immediate children only: the
\* directories getSubdirectories(root, 0, 0) returns are exactly the direct child
\* directories of the scan root whose name is not deny-listed, each once, and
\* no deeper directory is a target or the working directory of a command.
C11_DepthZeroChildrenOnly ==
    (pc # "start" /\ ValidRoot /\ GivenMaxDepth = 0)
        => /\ "packageName" \notin DOMAIN options
                 => /\ Range(targets)
                          = {q \in ChildrenOf(ScanRoot) :
                                /\ fs[q].kind \in {"dir", "nolist"}
                                /\ q[Len(q)] \notin DenyList}
                    /\ Cardinality(Range(targets)) = Len(targets)
           /\ \A t \in Range(targets) \cup Range(Cwds) :
                 /\ IsPrefix(ScanRoot, t)
                 /\ Len(t) = Len(ScanRoot) + 1
                 /\ fs[t].kind \in {"dir", "nolist"}
                 /\ t[Len(t)] \notin DenyList

C11_Witness ==
    /\ pc = "done"
    /\ GivenMaxDepth = 0
    /\ "packageName" \notin DOMAIN options
    /\ \E q \in DirsBelow(ScanRoot) : Len(q) = Len(ScanRoot) + 2 /\ BelowRoot(q)[1] \notin DenyList
    /\ targets # <<>>
    /\ Cwds = targets

\* C12: whatever the tree and maxDepth, no directory named node_modules, .git,
\* .next, dist or build and no descendant of one is returned by the exec walk
\* or is the working directory of a command, and the walk does not descend
\* into one (it never tries to list it, so it never warns about it).
C12_DenyListed ==
    \A t \in Range(targets) \cup Range(Cwds) \cup Range(warns) :
        /\ IsPrefix(ScanRoot, t)
        /\ \A k \in DOMAIN BelowRoot(t) : BelowRoot(t)[k] \notin DenyList

C12_Witness ==
    /\ pc = "done"
    /\ GivenMaxDepth >= 1
    /\ \E q \in DirsBelow(ScanRoot) :
          /\ Len(q) = Len(ScanRoot) + 2
          /\ BelowRoot(q)[1] \in DenyList
    /\ targets # <<>>
    /\ Cwds = targets

\* the tree root/{a/(one 100-byte file), b/{c/(one 200-byte file)}}, root being
\* the working directory; in the names of Levels the directory c is b/a and
\* the two files are a/a and b/a/a
ScenarioA == join(Cwd, "a")

ScenarioB == join(Cwd, "b")

ScenarioC == join(ScenarioB, "a")

ScenarioTree ==
    (Cwd :> DirEntry)
        @@ (ScenarioA :> DirEntry)
        @@ (join(ScenarioA, "a") :> [kind |-> "file", size |-> 100])
        @@ (ScenarioB :> DirEntry)
        @@ (ScenarioC :> DirEntry)
        @@ (join(ScenarioC, "a") :> [kind |-> "file", size |-> 200])

ScenarioScanned ==
    /\ Scanned
    /\ fs = ScenarioTree
    /\ ScanRoot = Cwd
    /\ GivenMaxDepth = 0
    /\ GivenTopCount >= 3

Ancestors(q) == {p \in DOMAIN fs : IsPrefix(ScanRoot, p) /\ IsPrefix(p, q) /\ p # q}

DepthOf(q) == Len(q) - Len(ScanRoot) - 1

\* C16: whatever entries fail to stat or to list, the ds walk ends without an
\* exception and getDirectorySizes returns true; nothing below a directory
\* whose listing fails is a node, every such failure the walk met is logged,
\* and every directory within the depth bound whose ancestors can all be
\* listed is still emitted.
C16_TraversalErrorsContained ==
    (pc = "done" /\ ValidRoot)
        => /\ ret = TRUE
           /\ totals # <<>>
           /\ \A n \in Range(discovered) :
                 \A p \in Ancestors(n.path) : fs[p].kind = "dir"
           /\ \A e \in Range(errors) : fs[e].kind = "nolist"
           /\ \A q \in DirsBelow(ScanRoot) :
                 ((\A p \in Ancestors(q) : fs[p].kind = "dir")
                      /\ DepthOf(q) <= GivenMaxDepth)
                     => \E n \in Range(discovered) : n.path = q

C16_Witness ==
    /\ Scanned
    /\ \E q \in DirsBelow(ScanRoot) :
          /\ fs[q].kind = "nolist"
          /\ DirsBelow(q) # {}
          /\ q \in Range(errors)
          /\ \E n \in Range(discovered) : n.path = q
          /\ \E n \in Range(discovered) :
                n.path # q /\ Len(n.path) = Len(q) /\ fs[n.path].kind = "dir"

\* the state of a target directory in the dispatcher, from the commands run in it
Runs(t) == {k \in DOMAIN processes : processes[k].cwd = t}

StateOf(t) ==
    IF Runs(t) = {} THEN "Pending"
    ELSE IF \E k \in Runs(t) : ~Exited(k) THEN "Running"
    ELSE IF \A k \in Runs(t) : processes[k].exit = 0 THEN "Succeeded"
    ELSE "Failed"

Terminal == {"Succeeded", "Failed"}

DispatcherInvariant ==
    /\ \A k \in DOMAIN processes : processes[k].cwd \in Range(targets)
    /\ \A t \in Range(targets) : Cardinality(Runs(t)) <= 1
    /\ Cardinality({t \in Range(targets) : StateOf(t) = "Running"}) <= 1
    /\ \A i, j \in DOMAIN targets :
          (j < i /\ StateOf(targets[i]) # "Pending") => StateOf(targets[j]) \in Terminal

DispatcherStep ==
    \A t \in Range(targets') :
        \/ StateOf(t)' = StateOf(t)
        \/ StateOf(t) = "Pending" /\ StateOf(t)' = "Running"
        \/ StateOf(t) = "Running" /\ StateOf(t)' \in Terminal

AllTerminal == \A t \in Range(targets) : StateOf(t) \in Terminal

\* C17: every target directory of exec moves Pending -> Running -> Succeeded
\* or Failed and stays there (it is run once); at most one directory is Running,
\* a directory leaves Pending only when all the directories before it in
\* discovery order are terminal; and once the targets are known every one of
\* them eventually is terminal, given that every command returns.
C17_DispatcherStateMachine ==
    /\ []DispatcherInvariant
    /\ [][DispatcherStep]_vars
    /\ (pc # "start") ~> AllTerminal

C17_Witness ==
    /\ Len(targets) = 3
    /\ StateOf(targets[1]) = "Failed"
    /\ StateOf(targets[2]) = "Running"
    /\ StateOf(targets[3]) = "Pending"

(***************************************************************************)
(* What the claims about pack are stated over.                             *)
(***************************************************************************)
PackOrder ==
    <<"removeTarballs", "build", "pack", "findLatestTarball", "copyToClipboard">>

Ran(name) == \E i \in DOMAIN steps : steps[i].step = name

StatusOf(name) == steps[CHOOSE i \in DOMAIN steps : steps[i].step = name].status

\* C13: the steps of pack are run in the order delete, build, pack, locate,
\* copy; pack is run only after a successful build, the lookup and the copy
\* only after a successful pack (the copy only with an archive found); a
\* failed build or pack makes packCommand return false, and once the copy is
\* reached packCommand returns true whether or not the copy succeeded.
C13_PackStepsGated ==
    /\ Len(steps) <= Len(PackOrder)
    /\ \A i \in DOMAIN steps : steps[i].step = PackOrder[i]
    /\ \A i \in DOMAIN steps : steps[i].status = "running" => i = Len(steps)
    /\ Ran("pack") => StatusOf("build") = "ok"
    /\ Ran("findLatestTarball") => StatusOf("build") = "ok" /\ StatusOf("pack") = "ok"
    /\ Ran("copyToClipboard")
          => /\ StatusOf("build") = "ok" /\ StatusOf("pack") = "ok"
             /\ StatusOf("findLatestTarball") = "ok"
    /\ pc = "done"
          => /\ (Ran("build") /\ StatusOf("build") = "failed") => ret = FALSE
             /\ (Ran("pack") /\ StatusOf("pack") = "failed") => ret = FALSE
             /\ Ran("copyToClipboard") => ret = TRUE
             /\ ret = TRUE => Len(steps) = Len(PackOrder)
             /\ clipboard # <<>> => StatusOf("copyToClipboard") = "ok"

C13_Witness ==
    /\ pc = "done"
    /\ ret = TRUE
    /\ Len(steps) = Len(PackOrder)
    /\ StatusOf("copyToClipboard") = "failed"
    /\ clipboard = <<>>
    /\ StatusOf("removeTarballs") = "ok"

(***************************************************************************)
(* What the claim about formatBytes is stated over.                        *)
(***************************************************************************)
\* the part of a text after its first space
RECURSIVE AfterSpace(_)
AfterSpace(text) ==
    IF text = <<>> THEN <<>>
    ELSE IF Head(text) = " " THEN Tail(text)
    ELSE AfterSpace(Tail(text))

\* the largest of the five units whose scaled value is >= 1 (an index of sizes)
LargestUnit(limbs) == IF Len(limbs) < Len(sizes) THEN Len(limbs) ELSE Len(sizes)

\* limbs / 1024^(u - 1) rounded to 2 decimals, as a text
ScaledText(limbs, u) ==
    LET top == limbs[1] * Kilo + (IF Len(limbs) >= 2 THEN limbs[2] ELSE 0)
    IN IF Len(limbs) = u
       THEN parseFloatText(toFixed2(top, Kilo))
       ELSE parseFloatText(toFixed2(top * Kilo ^ (Len(limbs) - u - 1), 1))

\* C15: formatBytes(0) is '0 B'; for b >= 1 the unit is the largest of B, KB,
\* MB, GB, TB whose scaled value is >= 1, the value is rounded to 2 decimals,
\* and the unit is one of these five also for b >= 1024^5.
C15_FormatBytesUnits ==
    pc = "done"
        => /\ bytes = <<>> => formatted = <<"0", " ", "B">>
           /\ bytes = <<1, 512>> => formatted = <<"1", ".", "5", " ", "K", "B">>
           /\ bytes = <<1, 0, 0>> => formatted = <<"1", " ", "M", "B">>
           /\ AfterSpace(formatted) \in Range(sizes)
           /\ bytes # <<>>
                 => formatted = ScaledText(bytes, LargestUnit(bytes)) \o <<" ">>
                                    \o sizes[LargestUnit(bytes)]

====
